---- MODULE Spec2Model ----
(***************************************************************************)
(* Model of the Postal API client (package postal): the Client             *)
(* configuration, request construction (NewRequest), the exchange (Do,     *)
(* CheckResponse) and the four service operations Send, SendRAW,           *)
(* GetMessage and GetDeliveries.                                           *)
(*                                                                         *)
(* Strings that the code inspects are modelled by their structure: a URL   *)
(* path is the sequence of its "/" separators and segments, a reply body   *)
(* is the JSON value it holds, classified by what json.Unmarshal and       *)
(* json.Decoder do with it.  A Go panic is an outcome of the call.         *)
(***************************************************************************)
EXTENDS Integers, Sequences, FiniteSets, TLC

VARIABLES client, transport, last

vars == <<client, transport, last>>

(***************************************************************************)
(* Bounds of the model.                                                    *)
(***************************************************************************)
\* longest path prefix a base URL carries, in segments
MaxPrefixLen == 1
\* most entries of the client's extra-header map
MaxHeaders == 2

(***************************************************************************)
(* Program constants.                                                      *)
(***************************************************************************)
userAgent == "gopostal/0.1.0"
mediaType == "application/json"
statusSuccess == "success"
statusParameterError == "parameter-error"
statusError == "error"
maxBodySlurpSize == 2048
StatusNoContent == 204

sendBasePath == <<"/", "api", "/", "v1", "/", "send">>
sendPath == sendBasePath \o <<"/", "message">>
sendRawPath == sendBasePath \o <<"/", "raw">>
messagesBasePath == <<"/", "api", "/", "v1", "/", "messages">>
detailsPath == messagesBasePath \o <<"/", "message">>
deliveriesPath == messagesBasePath \o <<"/", "deliveries">>

(***************************************************************************)
(* URLs.  A *url.URL is nil or a host with a path; a URL string either     *)
(* parses to one or is rejected by url.Parse.                              *)
(***************************************************************************)
NilURL == [isNil |-> TRUE, host |-> "", path |-> <<>>]

URL(host, path) == [isNil |-> FALSE, host |-> host, path |-> path]

URLString(valid, host, path) == [valid |-> valid, host |-> host, path |-> path]

BadURLString == URLString(FALSE, "", <<":", "bad">>)

PrefixSegments == <<"postal", "mail", "relay", "v2">>

RECURSIVE PrefixPath(_)
PrefixPath(n) == IF n = 0 THEN <<>> ELSE PrefixPath(n - 1) \o <<"/", PrefixSegments[n]>>

BasePaths == UNION {{PrefixPath(n), PrefixPath(n) \o <<"/">>} : n \in 0..MaxPrefixLen}

BaseURLStrings == {BadURLString} \cup {URLString(TRUE, "https://postal.example", p) : p \in BasePaths}

\* url.Parse, whose error NewClient and SetBaseURL discard
ParseURL(s) == IF s.valid THEN URL(s.host, s.path) ELSE NilURL

LastIndex(s, t) == IF \E i \in 1..Len(s) : s[i] = t THEN CHOOSE i \in 1..Len(s) : s[i] = t /\ \A j \in (i + 1)..Len(s) : s[j] # t ELSE 0

\* net/url resolvePath on paths without dot segments
resolvePath(base, ref) == LET full == IF ref = <<>> THEN base ELSE IF ref[1] # "/" THEN SubSeq(base, 1, LastIndex(base, "/")) \o ref ELSE ref IN IF full = <<>> THEN <<>> ELSE IF full[1] = "/" THEN full ELSE <<"/">> \o full

\* (*URL).ResolveReference for a reference without scheme
ResolveReference(u, ref) == IF ref.host # "" THEN URL(ref.host, resolvePath(ref.path, <<>>)) ELSE URL(u.host, resolvePath(u.path, ref.path))

(***************************************************************************)
(* Errors, requests and responses.                                         *)
(***************************************************************************)
Err(type, data, method, url, code) == [type |-> type, data |-> data, method |-> method, url |-> url, code |-> code]

NilErr == Err("nil", "", "", NilURL, 0)

PlainErr(type) == Err(type, "", "", NilURL, 0)

\* (*URL).Parse: the reference is parsed first, then resolved against u;
\* ResolveReference dereferences u, so a nil u panics
URLParse(u, ref) == IF ~ref.valid THEN [url |-> NilURL, err |-> PlainErr("ParseError"), panicked |-> FALSE] ELSE IF u.isNil THEN [url |-> NilURL, err |-> NilErr, panicked |-> TRUE] ELSE [url |-> ResolveReference(u, ParseURL(ref)), err |-> NilErr, panicked |-> FALSE]

CanonKeys == {"X-Server-Api-Key", "User-Agent", "Content-Type", "X-Trace"}

RawHeaderKeys == {"X-Server-API-Key", "x-server-api-key", "user-agent", "X-Trace"}

HeaderValue == "spoofed"

\* textproto.CanonicalMIMEHeaderKey: each hyphen-separated word is title-cased
CanonicalMIMEHeaderKey(k) == CASE k \in {"X-Server-API-Key", "x-server-api-key", "X-Server-Api-Key"} -> "X-Server-Api-Key" [] k \in {"User-Agent", "user-agent"} -> "User-Agent" [] k \in {"Content-Type", "content-type"} -> "Content-Type" [] OTHER -> "X-Trace"

EmptyHeader == [k \in CanonKeys |-> <<>>]

HeaderAdd(h, k, v) == [h EXCEPT ![CanonicalMIMEHeaderKey(k)] = Append(@, v)]

\* Header.Set written as Header.Add: earlier values of the key are kept
HeaderSetAppends(h, k, v) == [h EXCEPT ![CanonicalMIMEHeaderKey(k)] = Append(@, v)]

HeaderSet(h, k, v) == [h EXCEPT ![CanonicalMIMEHeaderKey(k)] = <<v>>]

\* the extra-header maps: at most MaxHeaders entries
HeaderMaps == UNION {[d -> {HeaderValue}] : d \in {s \in SUBSET RawHeaderKeys : Cardinality(s) <= MaxHeaders}}

\* the orders in which ranging over a map can visit its keys
Orders(m) == LET d == DOMAIN m n == Cardinality(d) IN {s \in [1..n -> d] : \A i, j \in 1..n : i # j => s[i] # s[j]}

RECURSIVE AddAll(_, _, _)
AddAll(h, m, ord) == IF ord = <<>> THEN h ELSE AddAll(HeaderAdd(h, ord[1], m[ord[1]]), m, Tail(ord))

NoRequest == [ok |-> FALSE, method |-> "", url |-> NilURL, header |-> EmptyHeader, body |-> "none"]

Methods == {"GET", "HEAD", "OPTIONS", "POST", "BAD METHOD"}

\* http.NewRequest rejects a method that is not a token
ValidMethod(method) == method # "BAD METHOD"

Bodies == {"nil", "ok", "unserializable"}

\* json.NewEncoder(buf).Encode(body)
Encode(body) == IF body = "unserializable" THEN [buf |-> "empty", err |-> PlainErr("MarshalError")] ELSE [buf |-> "json", err |-> NilErr]

(***************************************************************************)
(* The client.                                                             *)
(***************************************************************************)
ApiKeys == {"key-A", "key-B"}

\* a completion callback is unset, or returns to Do
Hooks == {"nil", "returns"}

\* a completion callback may also panic
AnyHooks == Hooks \cup {"panics"}

NoHeaders == [k \in {} |-> HeaderValue]

NewClient(baseURL, akey) == [BaseURL |-> ParseURL(baseURL), ApiKey |-> akey, UserAgent |-> userAgent, headers |-> NoHeaders, onRequestCompleted |-> "nil"]

NewRequest(c, method, urlStr, body, ord) ==
  LET r == URLParse(c.BaseURL, urlStr)
      bodyless == method \in {"GET", "HEAD", "OPTIONS"}
      enc == IF ~bodyless /\ body # "nil" THEN Encode(body) ELSE [buf |-> "empty", err |-> NilErr]
      base == IF bodyless THEN EmptyHeader ELSE HeaderSet(EmptyHeader, "Content-Type", mediaType)
      hdr == HeaderSet(HeaderSet(AddAll(base, c.headers, ord), "X-Server-API-Key", c.ApiKey), "User-Agent", c.UserAgent)
  IN  IF r.panicked THEN [req |-> NoRequest, err |-> NilErr, panicked |-> TRUE]
      ELSE IF r.err # NilErr THEN [req |-> NoRequest, err |-> r.err, panicked |-> FALSE]
      ELSE IF enc.err # NilErr THEN [req |-> NoRequest, err |-> enc.err, panicked |-> FALSE]
      ELSE IF ~ValidMethod(method) THEN [req |-> NoRequest, err |-> PlainErr("MethodError"), panicked |-> FALSE]
      ELSE [req |-> [ok |-> TRUE, method |-> method, url |-> r.url, header |-> hdr, body |-> IF bodyless THEN "none" ELSE enc.buf], err |-> NilErr, panicked |-> FALSE]

(***************************************************************************)
(* Replies of the injected HTTP client.  A reply body is empty, is not a   *)
(* JSON envelope, is an envelope {status, data}, or fails while it is read *)
(* (before any byte, or part-way).                                         *)
(***************************************************************************)
Statuses == {statusSuccess, statusParameterError, statusError, "unknown", "absent"}

\* the JSON value of the envelope's data field
DataKinds == {"result_obj", "error_obj", "empty_obj", "bad_obj", "arr", "str", "null", "absent"}

Body(kind, status, data) == [kind |-> kind, status |-> status, data |-> data]

EmptyBody == Body("empty", "-", "-")

ReplyBodies == {EmptyBody, Body("invalid", "-", "-"), Body("ioerr_empty", "-", "-"), Body("ioerr_partial", "-", "-")} \cup {Body("envelope", s, d) : s \in Statuses, d \in DataKinds}

StatusCodes == {200, 204, 500}

ContentLengths == {-1, 4096}

FailTransport == [dispatch |-> "fail", code |-> 0, contentLength |-> 0, body |-> EmptyBody]

Transports == {FailTransport} \cup {[dispatch |-> "ok", code |-> sc, contentLength |-> cl, body |-> b] : sc \in StatusCodes, cl \in ContentLengths, b \in ReplyBodies}

NilResponse == [isNil |-> TRUE, code |-> 0]

\* newResponse
newResponse(r) == [isNil |-> FALSE, code |-> r.code]

NilValue == [isNil |-> TRUE, from |-> "-"]

\* io.ReadAll(r.Body): the bytes read, and whether the read failed
ReadAll(body) == CASE body.kind = "ioerr_empty" -> [data |-> EmptyBody, failed |-> TRUE] [] body.kind = "ioerr_partial" -> [data |-> Body("partial", "-", "-"), failed |-> TRUE] [] OTHER -> [data |-> body, failed |-> FALSE]

\* json.Unmarshal(data, &response) into the Response envelope: an absent or
\* null status leaves Status "", an absent or null data leaves Data nil
UnmarshalEnvelope(data) == IF data.kind = "envelope" THEN [ok |-> TRUE, Status |-> IF data.status = "absent" THEN "" ELSE data.status, Data |-> IF data.data = "absent" THEN "null" ELSE data.data] ELSE [ok |-> FALSE, Status |-> "", Data |-> "null"]

\* the dynamic type of Response.Data is map[string]interface{}
IsMap(d) == d \in {"result_obj", "error_obj", "empty_obj", "bad_obj"}

\* m["message"] of a decoded JSON object
Message(d) == IF d = "error_obj" THEN "message-text" ELSE "nil"

\* ErrorResponse{Response: r, Data: data}
ErrorResponse(r, data) == Err("ErrorResponse", data, r.request.method, r.request.url, r.code)

\* CheckResponse without the len(data) > 0 guard: an empty body is unmarshalled
CheckResponseNoLenGuard(r) ==
  LET rd == ReadAll(r.body)
      response == UnmarshalEnvelope(rd.data)
      bodyAt == IF rd.failed THEN "ioerr" ELSE "eof"
  IN  IF ~rd.failed
      THEN IF ~response.ok THEN [data |-> rd.data, err |-> ErrorResponse(r, "unmarshal-error-text"), panicked |-> FALSE, bodyAt |-> bodyAt]
           ELSE IF response.Status # statusSuccess
           THEN IF IsMap(response.Data) THEN [data |-> rd.data, err |-> ErrorResponse(r, Message(response.Data)), panicked |-> FALSE, bodyAt |-> bodyAt]
                ELSE [data |-> rd.data, err |-> NilErr, panicked |-> TRUE, bodyAt |-> bodyAt]
           ELSE [data |-> rd.data, err |-> NilErr, panicked |-> FALSE, bodyAt |-> bodyAt]
      ELSE [data |-> rd.data, err |-> NilErr, panicked |-> FALSE, bodyAt |-> bodyAt]

CheckResponse(r) ==
  LET rd == ReadAll(r.body)
      response == UnmarshalEnvelope(rd.data)
      bodyAt == IF rd.failed THEN "ioerr" ELSE "eof"
  IN  IF ~rd.failed /\ rd.data.kind # "empty"
      THEN IF ~response.ok THEN [data |-> rd.data, err |-> ErrorResponse(r, "unmarshal-error-text"), panicked |-> FALSE, bodyAt |-> bodyAt]
           ELSE IF response.Status # statusSuccess
           THEN IF IsMap(response.Data) THEN [data |-> rd.data, err |-> ErrorResponse(r, Message(response.Data)), panicked |-> FALSE, bodyAt |-> bodyAt]
                ELSE [data |-> rd.data, err |-> NilErr, panicked |-> TRUE, bodyAt |-> bodyAt]
           ELSE [data |-> rd.data, err |-> NilErr, panicked |-> FALSE, bodyAt |-> bodyAt]
      ELSE [data |-> rd.data, err |-> NilErr, panicked |-> FALSE, bodyAt |-> bodyAt]

\* decode targets: nil, or a root whose data field points to a struct or to a slice
Targets == {"nil", "object", "array"}

\* Decode into a root whose field tag does not name "data": nothing is stored
DecodeWrongTag(data, v) == IF data.kind # "envelope" THEN [err |-> PlainErr("DecodeError"), value |-> NilValue] ELSE [err |-> NilErr, value |-> NilValue]

\* json.NewDecoder(buf).Decode(v) into a root struct {Data *T `json:"data"`}
Decode(data, v) ==
  CASE data.kind # "envelope" -> [err |-> PlainErr("DecodeError"), value |-> NilValue]
    [] data.kind = "envelope" /\ data.data \in {"null", "absent"} -> [err |-> NilErr, value |-> NilValue]
    [] data.kind = "envelope" /\ v = "object" /\ data.data \in {"result_obj", "error_obj", "empty_obj"} -> [err |-> NilErr, value |-> [isNil |-> FALSE, from |-> data.data]]
    [] data.kind = "envelope" /\ v = "array" /\ data.data = "arr" -> [err |-> NilErr, value |-> [isNil |-> FALSE, from |-> data.data]]
    [] OTHER -> [err |-> PlainErr("DecodeError"), value |-> NilValue]

\* the deferred function without its Close call
BodyCloseSkipped(n) == n

\* resp.Body.Close() in the deferred function
BodyClose(n) == n + 1

\* the deferred function of Do: slurp a short body, then close it
Deferred(r) == [slurped |-> (r.contentLength = -1 \/ r.contentLength <= maxBodySlurpSize), closeCount |-> BodyClose(0)]

DoOutcome(resp, err, panicked, hookCalls, closeCount, bodyAt, slurped, decodeAttempted, value) == [resp |-> resp, err |-> err, panicked |-> panicked, dispatched |-> 1, hookCalls |-> hookCalls, closeCount |-> closeCount, bodyAt |-> bodyAt, slurped |-> slurped, decodeAttempted |-> decodeAttempted, value |-> value]

\* the number of calls line 164-166 make to the completion callback
HookCalls(c) == IF c.onRequestCompleted # "nil" THEN 1 ELSE 0

\* Do returning nil metadata with a classification error
DoReturnNilOnError(r, cr, v) ==
  LET response == newResponse(r)
      dec == Decode(cr.data, v)
  IN  IF cr.err # NilErr THEN [resp |-> NilResponse, err |-> cr.err, decodeAttempted |-> FALSE, value |-> NilValue]
      ELSE IF r.code # StatusNoContent /\ v # "nil"
      THEN IF dec.err # NilErr THEN [resp |-> NilResponse, err |-> dec.err, decodeAttempted |-> TRUE, value |-> NilValue]
           ELSE [resp |-> response, err |-> NilErr, decodeAttempted |-> TRUE, value |-> dec.value]
      ELSE [resp |-> response, err |-> NilErr, decodeAttempted |-> FALSE, value |-> NilValue]

\* the return paths of Do: classify, then decode into v
DoReturn(r, cr, v) ==
  LET response == newResponse(r)
      dec == Decode(cr.data, v)
  IN  IF cr.err # NilErr THEN [resp |-> response, err |-> cr.err, decodeAttempted |-> FALSE, value |-> NilValue]
      ELSE IF r.code # StatusNoContent /\ v # "nil"
      THEN IF dec.err # NilErr THEN [resp |-> NilResponse, err |-> dec.err, decodeAttempted |-> TRUE, value |-> NilValue]
           ELSE [resp |-> response, err |-> NilErr, decodeAttempted |-> TRUE, value |-> dec.value]
      ELSE [resp |-> response, err |-> NilErr, decodeAttempted |-> FALSE, value |-> NilValue]

Do(c, req, v, t) ==
  LET r == [code |-> t.code, contentLength |-> t.contentLength, body |-> t.body, request |-> req]
      cr == CheckResponse(r)
      d == Deferred(r)
      ret == DoReturn(r, cr, v)
  IN  IF t.dispatch = "fail" THEN DoOutcome(NilResponse, PlainErr("TransportError"), "none", 0, 0, "unread", FALSE, FALSE, NilValue)
      ELSE IF c.onRequestCompleted = "panics" THEN DoOutcome(NilResponse, NilErr, "hook", HookCalls(c), 0, "unread", FALSE, FALSE, NilValue)
      ELSE IF cr.panicked THEN DoOutcome(NilResponse, NilErr, "CheckResponse", HookCalls(c), d.closeCount, cr.bodyAt, d.slurped, FALSE, NilValue)
      ELSE DoOutcome(ret.resp, ret.err, "none", HookCalls(c), d.closeCount, cr.bodyAt, d.slurped, ret.decodeAttempted, ret.value)

(***************************************************************************)
(* The outcome of the most recent call made under the current              *)
(* configuration: what the caller passed and what came back.               *)
(***************************************************************************)
Call(op, request, v, req, out, typed) == [op |-> op, request |-> request, v |-> v, req |-> req, resp |-> out.resp, err |-> out.err, panicked |-> out.panicked, dispatched |-> out.dispatched, hookCalls |-> out.hookCalls, closeCount |-> out.closeCount, bodyAt |-> out.bodyAt, slurped |-> out.slurped, decodeAttempted |-> out.decodeAttempted, typed |-> typed]

\* a call that ended before Do: nothing was dispatched
NotDispatched(err, panicked) == [resp |-> NilResponse, err |-> err, panicked |-> panicked, dispatched |-> 0, hookCalls |-> 0, closeCount |-> 0, bodyAt |-> "unread", slurped |-> FALSE, decodeAttempted |-> FALSE, value |-> NilValue]

NoCall == Call("none", "nil", "nil", NoRequest, NotDispatched(NilErr, "none"), NilValue)

RelativeURL(path) == URLString(TRUE, "", path)

\* the body shared by the four service methods: NewRequest with POST, Do
\* with a fresh root, then root's data pointer
Service(op, c, t, path, request, v, ord) ==
  LET nr == NewRequest(c, "POST", RelativeURL(path), request, ord)
      out == Do(c, nr.req, v, t)
  IN  IF nr.panicked THEN Call(op, request, v, NoRequest, NotDispatched(NilErr, "NewRequest"), NilValue)
      ELSE IF nr.err # NilErr THEN Call(op, request, v, NoRequest, NotDispatched(nr.err, "none"), NilValue)
      ELSE IF out.panicked # "none" \/ out.err # NilErr THEN Call(op, request, v, nr.req, out, NilValue)
      ELSE Call(op, request, v, nr.req, out, out.value)

ServiceOps == {"Send", "SendRAW", "GetMessage", "GetDeliveries"}

\* the path constant each service method passes to NewRequest
OpPath(op) == CASE op = "Send" -> sendPath [] op = "SendRAW" -> sendRawPath [] op = "GetMessage" -> detailsPath [] OTHER -> deliveriesPath

\* the shape of the data pointer of the root each service method decodes into
OpTarget(op) == IF op = "GetDeliveries" THEN "array" ELSE "object"

\* SendRequest and GetMessageRequest hold interface{} fields, which may not serialize
Requests(op) == IF op \in {"Send", "GetMessage"} THEN {"ok", "unserializable"} ELSE {"ok"}

(***************************************************************************)
(* Actions.  The setters assign one field of the client; last, which       *)
(* records a call made under the previous configuration, is cleared.       *)
(***************************************************************************)
SetBaseURL(bu) ==
  /\ client' = [client EXCEPT !.BaseURL = ParseURL(bu)]
  /\ last' = NoCall
  /\ UNCHANGED transport

SetApiKey(akey) ==
  /\ client' = [client EXCEPT !.ApiKey = akey]
  /\ last' = NoCall
  /\ UNCHANGED transport

OnRequestCompleted(rc) ==
  /\ client' = [client EXCEPT !.onRequestCompleted = rc]
  /\ last' = NoCall
  /\ UNCHANGED transport

Send(sendRequest) ==
  /\ \E ord \in Orders(client.headers) : last' = Service("Send", client, transport, sendPath, sendRequest, "object", ord)
  /\ UNCHANGED <<client, transport>>

SendRAW(sendRAWRequest) ==
  /\ \E ord \in Orders(client.headers) : last' = Service("SendRAW", client, transport, sendRawPath, sendRAWRequest, "object", ord)
  /\ UNCHANGED <<client, transport>>

GetMessage(getRequest) ==
  /\ \E ord \in Orders(client.headers) : last' = Service("GetMessage", client, transport, detailsPath, getRequest, "object", ord)
  /\ UNCHANGED <<client, transport>>

GetDeliveries(getRequest) ==
  /\ \E ord \in Orders(client.headers) : last' = Service("GetDeliveries", client, transport, deliveriesPath, getRequest, "array", ord)
  /\ UNCHANGED <<client, transport>>

\* a caller of the exported Do, with a request it obtained from NewRequest
CallDo(method, v) ==
  /\ \E ord \in Orders(client.headers) :
       LET nr == NewRequest(client, method, RelativeURL(sendPath), "nil", ord)
       IN  /\ ~nr.panicked
           /\ nr.req.ok
           /\ last' = Call("Do", "nil", v, nr.req, Do(client, nr.req, v, transport), NilValue)
  /\ UNCHANGED <<client, transport>>

\* a caller of the exported NewRequest
CallNewRequest(method, urlStr, body) ==
  /\ \E ord \in Orders(client.headers) :
       LET nr == NewRequest(client, method, urlStr, body, ord)
       IN  last' = Call("NewRequest", body, "nil", nr.req, NotDispatched(nr.err, IF nr.panicked THEN "NewRequest" ELSE "none"), NilValue)
  /\ UNCHANGED <<client, transport>>

\* the references callers resolve: the four service paths, a path without
\* the leading slash, and a string url.Parse rejects
URLStrings == {RelativeURL(OpPath(op)) : op \in ServiceOps} \cup {RelativeURL(Tail(sendPath)), BadURLString}

(***************************************************************************)
(* The service operations against any reply of the injected HTTP client.   *)
(* NewClient leaves the extra headers and the completion callback unset.   *)
(***************************************************************************)
Init ==
  /\ client \in {NewClient(b, k) : b \in BaseURLStrings, k \in ApiKeys}
  /\ transport \in Transports
  /\ last = NoCall

Next ==
  \/ \E bu \in BaseURLStrings : SetBaseURL(bu)
  \/ \E akey \in ApiKeys : SetApiKey(akey)
  \/ \E rc \in Hooks : OnRequestCompleted(rc)
  \/ \E r \in Requests("Send") : Send(r)
  \/ \E r \in Requests("SendRAW") : SendRAW(r)
  \/ \E r \in Requests("GetMessage") : GetMessage(r)
  \/ \E r \in Requests("GetDeliveries") : GetDeliveries(r)
  \/ \E v \in Targets : CallDo("GET", v)

Spec == Init /\ [][Next]_vars

(***************************************************************************)
(* The same operations with completion callbacks that may panic.           *)
(***************************************************************************)
NextHook ==
  \/ \E bu \in BaseURLStrings : SetBaseURL(bu)
  \/ \E akey \in ApiKeys : SetApiKey(akey)
  \/ \E rc \in AnyHooks : OnRequestCompleted(rc)
  \/ \E r \in Requests("Send") : Send(r)
  \/ \E r \in Requests("SendRAW") : SendRAW(r)
  \/ \E r \in Requests("GetMessage") : GetMessage(r)
  \/ \E r \in Requests("GetDeliveries") : GetDeliveries(r)
  \/ \E v \in Targets : CallDo("GET", v)

SpecHook == Init /\ [][NextHook]_vars

(***************************************************************************)
(* Request construction for a client whose extra-header map is populated   *)
(* (the field is unexported: only code of the package can set it).         *)
(***************************************************************************)
InitReq ==
  /\ client \in {[NewClient(b, k) EXCEPT !.headers = h] : b \in BaseURLStrings, k \in ApiKeys, h \in HeaderMaps}
  /\ transport = FailTransport
  /\ last = NoCall

NextReq ==
  \/ \E bu \in BaseURLStrings : SetBaseURL(bu)
  \/ \E akey \in ApiKeys : SetApiKey(akey)
  \/ \E method \in Methods, urlStr \in URLStrings, body \in Bodies : CallNewRequest(method, urlStr, body)

SpecReq == InitReq /\ [][NextReq]_vars

(***************************************************************************)
(* Properties.                                                             *)
(***************************************************************************)
\* the last call reached the transport and the transport returned a response
Delivered == last.op \in ServiceOps \cup {"Do"} /\ last.dispatched = 1 /\ transport.dispatch = "ok"

NonSuccessEnvelope == transport.body.kind = "envelope" /\ transport.body.status # statusSuccess

\* the joined URL the documentation gives: the base URL, less a trailing
\* slash, followed by the path
JoinURL(base, path) == URL(base.host, (IF base.path # <<>> /\ base.path[Len(base.path)] = "/" THEN SubSeq(base.path, 1, Len(base.path) - 1) ELSE base.path) \o path)

\* the data value matches the result shape of the operation's target
DataMatches(v, d) == (v = "object" /\ d = "result_obj") \/ (v = "array" /\ d = "arr")

\* C1: for every service operation and every HTTP status code, a reply
\* holding an envelope whose status is not "success" makes the call return
\* an ErrorResponse carrying the method, URL, status code and data.message,
\* and no typed result.
C1_NonSuccessReturnsAPIError == (last.op \in ServiceOps /\ Delivered /\ NonSuccessEnvelope) => (last.panicked = "none" /\ last.err = Err("ErrorResponse", Message(transport.body.data), "POST", last.req.url, transport.code) /\ last.typed.isNil)

\* C2: a reply whose status is not "success" and whose data is not a
\* mapping makes classification return an error value; it never panics.
C2_ClassificationNeverPanics == (Delivered /\ NonSuccessEnvelope /\ ~IsMap(transport.body.data)) => (last.panicked = "none" /\ last.err.type = "ErrorResponse")

\* C3 as stated: whenever the dispatch succeeds and the reply is a success
\* envelope whose data matches the operation's result shape, the call
\* returns a non-nil typed result taken from data and a nil error.
C3_SuccessReturnsResult == (last.op \in ServiceOps /\ Delivered /\ transport.body.kind = "envelope" /\ transport.body.status = statusSuccess /\ DataMatches(OpTarget(last.op), transport.body.data)) => (last.panicked = "none" /\ last.err = NilErr /\ ~last.typed.isNil /\ last.typed.from = transport.body.data)

\* C3 amended: the same, for every status code other than 204 No Content
\* (with 204 the body is not decoded).
C3_SuccessReturnsResultUnless204 == (last.op \in ServiceOps /\ Delivered /\ transport.code # StatusNoContent /\ transport.body.kind = "envelope" /\ transport.body.status = statusSuccess /\ DataMatches(OpTarget(last.op), transport.body.data)) => (last.panicked = "none" /\ last.err = NilErr /\ ~last.typed.isNil /\ last.typed.from = transport.body.data)

\* C3 witness: GetDeliveries against a 200 reply whose success envelope holds a list returns that list.
C3_Witness == last.op = "GetDeliveries" /\ Delivered /\ transport.code = 200 /\ transport.body = Body("envelope", statusSuccess, "arr") /\ ~last.typed.isNil /\ last.err = NilErr

\* C4: for each service operation and every base URL, the URL of the
\* request equals the base URL joined with the operation's path.
C4_URLIsBaseJoinedWithPath == (last.op \in ServiceOps /\ last.req.ok) => last.req.url = JoinURL(client.BaseURL, OpPath(last.op))

\* C5: when the dispatch returned a response, the body is never closed
\* twice, and when Do returns (success, classification error or decode
\* error) the body has been read to its end and closed exactly once.
C5_BodyReadAndClosedOnce == Delivered => (last.closeCount <= 1 /\ (last.panicked = "none" => (last.closeCount = 1 /\ last.bodyAt # "unread" /\ (transport.body.kind \notin {"ioerr_empty", "ioerr_partial"} => last.bodyAt = "eof"))))

\* C5 witness: Do returned a decode error with the body read to its end and closed once.
C5_Witness == Delivered /\ last.panicked = "none" /\ last.err.type = "DecodeError" /\ last.closeCount = 1 /\ last.bodyAt = "eof"

\* C6: every request NewRequest returns carries exactly one
\* X-Server-API-Key value, the client's API key, and exactly one User-Agent
\* value, the client's user agent, whatever the extra-header map holds.
C6_ForcedHeaders == (last.op = "NewRequest" /\ last.req.ok) => (last.req.header["X-Server-Api-Key"] = <<client.ApiKey>> /\ last.req.header["User-Agent"] = <<client.UserAgent>>)

\* C6 witness: a request built while the extra headers spoof both forced keys.
C6_Witness == last.op = "NewRequest" /\ last.req.ok /\ {"x-server-api-key", "user-agent"} \subseteq DOMAIN client.headers /\ last.req.header["X-Server-Api-Key"] = <<client.ApiKey>>

\* C7: an empty reply body classifies as success, and with no decode target
\* or with status 204 Do attempts no decode and returns the response
\* metadata with a nil error.
C7_EmptyBodyIsSuccess == (Delivered /\ transport.body.kind = "empty") => (last.panicked = "none" /\ last.err.type # "ErrorResponse" /\ ((last.v = "nil" \/ transport.code = StatusNoContent) => (~last.decodeAttempted /\ ~last.resp.isNil /\ last.err = NilErr)))

\* C7 witness: Do called without a decode target against an empty 200 reply.
C7_Witness == last.op = "Do" /\ last.v = "nil" /\ Delivered /\ transport.body.kind = "empty" /\ transport.code = 200 /\ ~last.resp.isNil /\ last.err = NilErr

\* C8: when the base URL did not parse or the request body cannot be
\* serialized, the operation returns a construction error, no request and
\* no typed result, dispatches nothing, and does not panic.
C8_ConstructionFailureIsAnError == (last.op \in ServiceOps /\ (client.BaseURL.isNil \/ last.request = "unserializable")) => (last.panicked = "none" /\ last.err.type \in {"ParseError", "MarshalError"} /\ ~last.req.ok /\ last.typed.isNil /\ last.dispatched = 0)

\* C9 as stated: whenever the dispatch returned a response, Do returns
\* non-nil response metadata on every exit path.
C9_MetadataOnEveryExit == (Delivered /\ last.panicked = "none") => ~last.resp.isNil

\* C9 amended: Do returns non-nil response metadata on success and on a
\* classification error, and nil metadata exactly when decoding fails.
C9_MetadataUnlessDecodeFails == (Delivered /\ last.panicked = "none") => ((last.resp.isNil <=> last.err.type = "DecodeError") /\ (~last.resp.isNil => last.resp.code = transport.code))

\* C9 witness: a classification error returned together with the response metadata.
C9_Witness == Delivered /\ last.panicked = "none" /\ last.err.type = "ErrorResponse" /\ ~last.resp.isNil

\* C10: with a completion callback configured, Do calls it exactly once
\* when the dispatch succeeded and never when it failed, and whatever the
\* callback does the body is still read and released.
C10_HookOnceAndHarmless == (last.op \in ServiceOps \cup {"Do"} /\ last.dispatched = 1 /\ client.onRequestCompleted # "nil") => ((transport.dispatch = "ok" => (last.hookCalls = 1 /\ last.bodyAt # "unread" /\ last.closeCount = 1)) /\ (transport.dispatch = "fail" => last.hookCalls = 0))

====
